---------------------------- MODULE Spec2Model ----------------------------
(***************************************************************************)
(* Model of the power-report pipeline (src/backend.py) and of the web      *)
(* front end's index handler (src/app.py).                                 *)
(*                                                                         *)
(* Text.  A report is a sequence of lines "label: w1 w2 ...".  A label is  *)
(* a sequence of pieces: name parts ("Total", "mw") and the separators     *)
(* " " and "_" between them.  A word of the value is a numeral (num: its   *)
(* integer part and its first three decimals, <<>> when the word has no    *)
(* leading numeral) followed by a tail of characters; characters are named *)
(* by strings, the non-ASCII ones by their names: "micro" is U+00B5, "mu"  *)
(* is U+03BC, "MU" is U+039C, "longs" is U+017F, "kelvin" is U+212A, "deg" *)
(* is U+00B0.  Any other string is a run of characters none of which is a  *)
(* blank, a unit letter or a colon.  Words of one line are separated by    *)
(* single blanks, and every line has at least one word after its label; a  *)
(* line that carries the label of a numeric field and a numeral also       *)
(* carries what follows the numeral, so that no match of a pattern runs    *)
(* over the end of a line.                                                 *)
(*                                                                         *)
(* Numbers.  A float is modelled in fixed point, in thousandths, which is  *)
(* exact for the products and quotients by 1000 of the numerals used here  *)
(* (a numeral that is divided has no decimals).                            *)
(***************************************************************************)
EXTENDS Integers, Sequences, FiniteSets, TLC

VARIABLES
    content,      \* PowerReportParser._parse_content: the content argument
    metrics,      \* parsed_data['metrics']
    raw_metrics,  \* parsed_data['raw_metrics']
    html,         \* what generate_html_dashboard returned or raised
    pc,           \* "input" | "parsed" | "rendered"; "idle" when not in use
    directory,    \* process_power_reports: the entries of the directory
    same_dir,     \* whether output_directory is the directory itself
    history,      \* what each finished run returned and left on disk
    files,        \* process_power_reports: the files of the directory that the
                  \* glob yields, in the order it yields them
    idx,          \* the number of files the loop has taken
    results,      \* the results dict
    written,      \* the documents in the output directory, with their source
    batch,        \* "running" | "returned" | "raised"; "idle" when not in use
    request,      \* index: the request
    calls,        \* the calls of run_chip and run_power made so far
    generated,    \* what the pipeline returned
    response,     \* the response of the handler
    wpc           \* "start" | "dispatch" | "returned" | "done"; "idle"

parserVars == <<content, metrics, raw_metrics, html, pc>>
batchVars == <<directory, same_dir, history, files, idx, results, written, batch>>
webVars == <<request, calls, generated, response, wpc>>
vars == <<parserVars, batchVars, webVars>>

\* ------------------------------------------------------------------ bounds
MaxLines == 2
MaxFiles == 3
MaxRuns == 2
MaxDesigns == 2
MaxDocs == 2

\* ------------------------------------------------------------ fixed point
\* The float of an integer literal of the code
Float(i) == i * 1000

\* float(match.group(1))
ToFloat(numeral) == numeral[1] * 1000 + numeral[2]

\* ---------------------------------------------------------------- text
NoNum == <<>>

W(n, t) == [num |-> n, tail |-> t]

\* str.lower() of one character
Lower(c) ==
    CASE c = "W" -> "w"
      [] c = "M" -> "m"
      [] c = "S" -> "s"
      [] c = "G" -> "g"
      [] c = "K" -> "k"
      [] c = "H" -> "h"
      [] c = "Z" -> "z"
      [] c = "V" -> "v"
      [] c = "C" -> "c"
      [] c = "F" -> "f"
      [] c = "MU" -> "mu"
      [] c = "kelvin" -> "k"
      [] OTHER -> c

\* str.lower() of a string
LowerStr(s) == [i \in 1..Len(s) |-> Lower(s[i])]

\* The characters re.IGNORECASE lets a lower-case pattern character match
\* besides those that lower to it: the lower-case letters with more than one
\* upper-case counterpart (s and long s, micro sign and Greek mu, ...).
CaseFixes(lo) ==
    CASE lo = "s" -> {"longs"}
      [] lo = "longs" -> {"s"}
      [] lo = "micro" -> {"mu"}
      [] lo = "mu" -> {"micro"}
      [] OTHER -> {}

\* One pattern character against one subject character under re.IGNORECASE
IgnoreCaseEq(p, c) == Lower(c) \in ({Lower(p)} \cup CaseFixes(Lower(p)))

\* A literal pattern is a prefix of the subject, ignoring case
PrefixMatch(pat, s) ==
    /\ Len(pat) <= Len(s)
    /\ \A i \in 1..Len(pat) : IgnoreCaseEq(pat[i], s[i])


\* ---------------------------------------------------------------- labels
\* str.lower() of a name part of a label
LowerPart(p) ==
    CASE p = "Timestamp" -> "timestamp"
      [] p = "Device" -> "device"
      [] p = "Total" -> "total"
      [] p = "Power" -> "power"
      [] p = "CPU" -> "cpu"
      [] p = "GPU" -> "gpu"
      [] p = "Memory" -> "memory"
      [] p = "Other" -> "other"
      [] p = "Duration" -> "duration"
      [] p = "Frequency" -> "frequency"
      [] p = "Voltage" -> "voltage"
      [] p = "Temperature" -> "temperature"
      [] p = "MHz" -> "mhz"
      [] p = "Note" -> "note"
      [] OTHER -> p

LowerLabel(l) == [i \in 1..Len(l) |-> LowerPart(l[i])]

\* The label part of PATTERNS[field], lower-cased; \s+ between the parts is
\* the piece " "
LabelPattern(field) ==
    CASE field = "timestamp" -> <<"timestamp">>
      [] field = "device_name" -> <<"device">>
      [] field = "total_power" -> <<"total", " ", "power">>
      [] field = "cpu_power" -> <<"cpu", " ", "power">>
      [] field = "gpu_power" -> <<"gpu", " ", "power">>
      [] field = "memory_power" -> <<"memory", " ", "power">>
      [] field = "other_power" -> <<"other", " ", "power">>
      [] field = "duration" -> <<"duration">>
      [] field = "frequency" -> <<"frequency">>
      [] field = "voltage" -> <<"voltage">>
      [] field = "temperature" -> <<"temperature">>

\* The unit alternatives of PATTERNS[field], in the order the pattern lists them
UnitAlternatives(field) ==
    CASE field \in {"total_power", "cpu_power", "gpu_power", "memory_power",
                    "other_power"} -> << <<"m", "W">>, <<"W">>, <<"micro", "W">> >>
      [] field = "duration" -> << <<"s">>, <<"m", "s">>, <<"micro", "s">> >>
      [] field = "frequency" ->
             << <<"M", "H", "z">>, <<"G", "H", "z">>, <<"K", "H", "z">> >>
      [] field = "voltage" -> << <<"V">>, <<"m", "V">> >>
      [] field = "temperature" ->
             << <<"deg", "C">>, <<"C">>, <<"deg", "F">>, <<"F">> >>

\* The pattern is searched, not anchored: the label pattern may start anywhere,
\* and the colon follows it, so it matches a label that ends with it.  The
\* '#' of a comment line is before the label and does not prevent the match.
LabelMatches(field, line) ==
    LET pat == LabelPattern(field)
        lab == LowerLabel(line.label)
    IN  /\ Len(pat) <= Len(lab)
        /\ SubSeq(lab, Len(lab) - Len(pat) + 1, Len(lab)) = pat

\* (mW|W|uW): the part of s the first matching alternative matches, <<>> if none
RECURSIVE FirstAlternative(_, _, _)
FirstAlternative(alts, i, s) ==
    IF i > Len(alts) THEN <<>>
    ELSE IF PrefixMatch(alts[i], s) THEN SubSeq(s, 1, Len(alts[i]))
    ELSE FirstAlternative(alts, i + 1, s)

\* What follows the numeral of the first word: its tail, or (\s*) the next word
AfterNumeral(words) ==
    IF words[1].tail # <<>> THEN words[1].tail
    ELSE IF Len(words) >= 2 /\ words[2].num = NoNum THEN words[2].tail
    ELSE <<>>

\* label:\s+(\d+\.?\d*)\s*(units) on one line: the groups, or ok = FALSE
LineMatch(field, line) ==
    LET words == line.words
        unit  == IF words[1].num = NoNum THEN <<>>
                 ELSE FirstAlternative(UnitAlternatives(field), 1, AfterNumeral(words))
    IN  IF LabelMatches(field, line) /\ unit # <<>>
        THEN [ok |-> TRUE, value |-> ToFloat(words[1].num), unit |-> unit]
        ELSE [ok |-> FALSE, value |-> 0, unit |-> <<>>]

\* compiled_patterns[field].search(content): the first line that matches
RECURSIVE Search(_, _, _)
Search(field, c, i) ==
    IF i > Len(c) THEN [ok |-> FALSE, value |-> 0, unit |-> <<>>]
    ELSE IF LineMatch(field, c[i]).ok THEN LineMatch(field, c[i])
    ELSE Search(field, c, i + 1)

\* label:\s+(.+?)(?:\s|$): the first line with the label; group 1 stops at the
\* first whitespace, so it is the first word
RECURSIVE SearchText(_, _, _)
SearchText(field, c, i) ==
    IF i > Len(c) THEN [ok |-> FALSE, text |-> <<>>]
    ELSE IF LabelMatches(field, c[i])
         THEN [ok |-> TRUE, text |-> <<c[i].words[1]>>]
    ELSE SearchText(field, c, i + 1)

\* ------------------------------------------------------------ normalizers
\* _normalize_power: to milliwatts
NormalizePower(value, unit) ==
    LET u == LowerStr(unit)
    IN  IF u = <<"w">> THEN value * 1000
        ELSE IF u = <<"micro", "w">> THEN value \div 1000
        ELSE value

\* _normalize_frequency: to MHz
NormalizeFrequency(value, unit) ==
    LET u == LowerStr(unit)
    IN  IF u = <<"g", "h", "z">> THEN value * 1000
        ELSE IF u = <<"k", "h", "z">> THEN value \div 1000
        ELSE value

\* _normalize_voltage: to volts
NormalizeVoltage(value, unit) ==
    LET u == LowerStr(unit)
    IN  IF u = <<"m", "v">> THEN value \div 1000
        ELSE value

\* _normalize_duration: to milliseconds
NormalizeDuration(value, unit) ==
    LET u == LowerStr(unit)
    IN  IF u = <<"s">> THEN value * 1000
        ELSE IF u = <<"micro", "s">> THEN value \div 1000
        ELSE value

Normalize(field, value, unit) ==
    CASE field = "frequency" -> NormalizeFrequency(value, unit)
      [] field = "voltage" -> NormalizeVoltage(value, unit)
      [] field = "duration" -> NormalizeDuration(value, unit)
      [] field = "temperature" -> value
      [] OTHER -> NormalizePower(value, unit)

\* ---------------------------------------------------------------- metrics
\* A value of the metrics dict: a float, or a str (the words of a line's value)
NumV(x) == [t |-> "num", v |-> x, text |-> <<>>]
StrV(ws) == [t |-> "str", v |-> 0, text |-> ws]

Empty == [k \in {} |-> NumV(0)]

\* d[key] = value
Put(d, key, value) ==
    [k \in DOMAIN d \cup {key} |-> IF k = key THEN value ELSE d[k]]

\* d.get(key, default)
Get(d, key, default) == IF key \in DOMAIN d THEN d[key] ELSE default

NumericFields ==
    <<"total_power", "cpu_power", "gpu_power", "memory_power", "other_power",
      "frequency", "voltage", "temperature", "duration">>

\* The key of metrics a numeric field is stored under
MetricKey(field) ==
    CASE field = "total_power" -> "total_power_mw"
      [] field = "cpu_power" -> "cpu_power_mw"
      [] field = "gpu_power" -> "gpu_power_mw"
      [] field = "memory_power" -> "memory_power_mw"
      [] field = "other_power" -> "other_power_mw"
      [] field = "frequency" -> "frequency_mhz"
      [] field = "voltage" -> "voltage_v"
      [] field = "temperature" -> "temperature_c"
      [] field = "duration" -> "duration_ms"

\* The key of raw_metrics a numeric field is stored under
RawKey(field) ==
    CASE field = "total_power" -> "total"
      [] field = "cpu_power" -> "cpu"
      [] field = "gpu_power" -> "gpu"
      [] field = "memory_power" -> "memory"
      [] field = "other_power" -> "other"
      [] OTHER -> field

\* The timestamp and the device name
TextFields(c) ==
    LET ts  == SearchText("timestamp", c, 1)
        dev == SearchText("device_name", c, 1)
        m1  == IF ts.ok THEN Put(Empty, "timestamp", StrV(ts.text)) ELSE Empty
    IN  IF dev.ok THEN Put(m1, "device_name", StrV(dev.text)) ELSE m1

\* The power values, frequency, voltage, temperature and duration, in the
\* order of NumericFields from the i-th on
RECURSIVE NumericMetrics(_, _, _)
NumericMetrics(c, i, m) ==
    IF i > Len(NumericFields) THEN m
    ELSE LET f   == NumericFields[i]
             hit == Search(f, c, 1)
         IN  NumericMetrics(c, i + 1,
                 IF hit.ok THEN Put(m, MetricKey(f), NumV(Normalize(f, hit.value, hit.unit)))
                 ELSE m)

RECURSIVE RawMetrics(_, _, _)
RawMetrics(c, i, r) ==
    IF i > Len(NumericFields) THEN r
    ELSE LET f   == NumericFields[i]
             hit == Search(f, c, 1)
         IN  RawMetrics(c, i + 1,
                 IF hit.ok THEN Put(r, RawKey(f), [value |-> hit.value, unit |-> hit.unit])
                 ELSE r)

\* metric_match.group(1).lower().replace(' ', '_')
RECURSIVE PassthroughKey(_, _)
PassthroughKey(label, i) ==
    IF i > Len(label) THEN ""
    ELSE (IF label[i] = " " THEN "_" ELSE LowerPart(label[i]))
         \o PassthroughKey(label, i + 1)

\* metric_line matches the stripped line: ^(\w+[\w\s]*?):\s+(.+?)$ needs a word
\* character first, so a line that starts with '#' never matches
MetricLineMatches(line) == ~line.hash /\ Len(line.label) > 0 /\ Len(line.words) > 0

\* The loop over content.split('\n') without its test 'key not in metrics'
RECURSIVE PassthroughOverwriting(_, _, _)
PassthroughOverwriting(c, i, m) ==
    IF i > Len(c) THEN m
    ELSE PassthroughOverwriting(c, i + 1,
             IF MetricLineMatches(c[i])
             THEN Put(m, PassthroughKey(c[i].label, 1), StrV(c[i].words))
             ELSE m)

\* The loop over content.split('\n'), from the i-th line on
RECURSIVE Passthrough(_, _, _)
Passthrough(c, i, m) ==
    IF i > Len(c) THEN m
    ELSE LET key == PassthroughKey(c[i].label, 1)
         IN  Passthrough(c, i + 1,
                 IF MetricLineMatches(c[i]) /\ key \notin DOMAIN m
                 THEN Put(m, key, StrV(c[i].words))
                 ELSE m)

\* _parse_content: parsed_data['metrics']
ParseMetrics(c) == Passthrough(c, 1, NumericMetrics(c, 1, TextFields(c)))

\* _parse_content: parsed_data['raw_metrics']
ParseRaw(c) == RawMetrics(c, 1, [k \in {} |-> [value |-> 0, unit |-> <<>>]])

\* --------------------------------------------------------------- renderer
CriticalMw == 10000
WarningMw == 5000

\* _get_power_class with the thresholds taken inclusively
GetPowerClassInclusive(power_mw) ==
    IF power_mw >= Float(CriticalMw) THEN "metric-card power-critical"
    ELSE IF power_mw >= Float(WarningMw) THEN "metric-card power-warning"
    ELSE "metric-card power-normal"

\* _get_power_class
GetPowerClass(power_mw) ==
    IF power_mw > Float(CriticalMw) THEN "metric-card power-critical"
    ELSE IF power_mw > Float(WarningMw) THEN "metric-card power-warning"
    ELSE "metric-card power-normal"

\* n / d rounded to the nearest integer, ties to even (n >= 0, d > 0)
RoundDiv(n, d) ==
    LET q == n \div d
        r == n % d
    IN  IF 2 * r > d \/ (2 * r = d /\ q % 2 = 1) THEN q + 1 ELSE q

\* f'{value:.2f}': the text, as a number of hundredths
Format2f(value) == RoundDiv(value, 10)

\* value * 10^k / total as <<quotient, remainder>>, taken digit by digit from
\* qr = <<value \div total, value % total>>: value * 10^k itself is out of
\* the range of the model checker's integers
RECURSIVE ScaledQuotient(_, _, _)
ScaledQuotient(qr, total, k) ==
    IF k = 0 THEN qr
    ELSE ScaledQuotient(<<qr[1] * 10 + (qr[2] * 10) \div total, (qr[2] * 10) % total>>,
                        total, k - 1)

\* f'{percentage:.1f}' of percentage = value / total * 100: the text, as a
\* number of tenths of a percent, rounded to the nearest, ties to even
PercentageText(value, total) ==
    LET qr == ScaledQuotient(<<value \div total, value % total>>, total, 3)
    IN  IF 2 * qr[2] > total \/ (2 * qr[2] = total /\ qr[1] % 2 = 1)
        THEN qr[1] + 1 ELSE qr[1]

\* _build_metric_card
BuildMetricCard(label, value, unit, css_class) ==
    [label |-> label, value |-> Format2f(value), unit |-> unit, css_class |-> css_class]

\* _build_breakdown_item with percentage = value / total, the fraction
BuildBreakdownItemFraction(label, value, total) ==
    [label |-> label, value |-> Format2f(value),
     width |-> IF total > 0 THEN RoundDiv(value * 10, total) ELSE 0]

\* _build_breakdown_item: the width f'{percentage:.1f}', as a number of tenths
\* of a percent
BuildBreakdownItem(label, value, total) ==
    [label |-> label, value |-> Format2f(value),
     width |-> IF total > 0 THEN PercentageText(value, total) ELSE 0]

\* The cards of the main metrics section: label, key, unit
CardFields ==
    << <<"Total Power", "total_power_mw", "mW">>,
       <<"CPU Power", "cpu_power_mw", "mW">>,
       <<"GPU Power", "gpu_power_mw", "mW">>,
       <<"Memory Power", "memory_power_mw", "mW">>,
       <<"Frequency", "frequency_mhz", "MHz">>,
       <<"Voltage", "voltage_v", "V">>,
       <<"Temperature", "temperature_c", "degC">> >>

\* The css class generate_html_dashboard passes for the i-th card
CardClass(i, total_power) ==
    IF i = 1 THEN GetPowerClass(total_power) ELSE "metric-card"

NoDocument(status) ==
    [status |-> status, device |-> <<>>, timestamp |-> <<>>, cards |-> <<>>,
     breakdown |-> <<>>]

\* generate_html_dashboard: the document, or the exception it raises.  A str in
\* place of a float raises: TypeError from the comparison of _get_power_class,
\* ValueError from the format code of _build_metric_card.
GenerateHtmlDashboard(m) ==
    LET val(key) == Get(m, key, NumV(0))
        total    == val("total_power_mw")
        text(key, default) == IF key \in DOMAIN m THEN m[key].text ELSE default
    IN  IF total.t = "str" THEN NoDocument("TypeError")
        ELSE IF \E i \in 1..Len(CardFields) : val(CardFields[i][2]).t = "str"
        THEN NoDocument("ValueError")
        ELSE [status |-> "ok",
              device |-> text("device_name", <<W(NoNum, <<"Unknown Device">>)>>),
              timestamp |-> text("timestamp", <<W(NoNum, <<"N/A">>)>>),
              cards |-> [i \in 1..Len(CardFields) |->
                            BuildMetricCard(CardFields[i][1], val(CardFields[i][2]).v,
                                            CardFields[i][3], CardClass(i, total.v))],
              breakdown |->
                  << BuildBreakdownItem("CPU", val("cpu_power_mw").v, total.v),
                     BuildBreakdownItem("GPU", val("gpu_power_mw").v, total.v),
                     BuildBreakdownItem("Memory", val("memory_power_mw").v, total.v) >>]

\* ----------------------------------------------------------------- inputs
Line(hash, label, words) == [hash |-> hash, label |-> label, words |-> words]

\* a numeral and a unit token separated by a blank
NumUnit(n, unit) == <<W(n, <<>>), W(NoNum, unit)>>

TotalPowerLines ==
    { Line(FALSE, <<"Total", " ", "Power">>, NumUnit(<<12, 500>>, <<"W">>)),
      Line(FALSE, <<"Total", " ", "Power">>, NumUnit(<<6000, 0>>, <<"m", "W">>)),
      Line(FALSE, <<"Total", " ", "Power">>, NumUnit(<<0, 0>>, <<"m", "W">>)),
      Line(FALSE, <<"Total", " ", "Power">>, <<W(<<5000, 0>>, <<"m", "W">>)>>),
      Line(FALSE, <<"Total", " ", "Power">>, NumUnit(<<5, 0>>, <<"mu", "W">>)),
      Line(FALSE, <<"total", " ", "power">>, NumUnit(<<10000, 0>>, <<"M", "W">>)),
      Line(TRUE,  <<"Total", " ", "Power">>, NumUnit(<<10000, 1>>, <<"m", "W">>)),
      Line(FALSE, <<"Total", " ", "Power">>, <<W(NoNum, <<"high">>)>>) }

OtherPowerLines ==
    { Line(FALSE, <<"CPU", " ", "Power">>, NumUnit(<<6000, 0>>, <<"m", "W">>)),
      Line(FALSE, <<"GPU", " ", "Power">>, NumUnit(<<2, 0>>, <<"MU", "W">>)),
      Line(FALSE, <<"Memory", " ", "Power">>, NumUnit(<<500, 0>>, <<"micro", "W">>)),
      Line(FALSE, <<"Other", " ", "Power">>, NumUnit(<<3, 0>>, <<"W">>)) }

FrequencyLines ==
    { Line(FALSE, <<"Frequency">>, NumUnit(<<2, 0>>, <<"G", "H", "z">>)),
      Line(FALSE, <<"Frequency">>, NumUnit(<<800, 0>>, <<"k", "H", "z">>)),
      Line(FALSE, <<"Frequency">>, NumUnit(<<800, 0>>, <<"kelvin", "H", "z">>)),
      Line(FALSE, <<"Frequency">>, NumUnit(<<100, 0>>, <<"M", "H", "z">>)) }

VoltageLines ==
    { Line(FALSE, <<"Voltage">>, NumUnit(<<900, 0>>, <<"m", "V">>)),
      Line(FALSE, <<"Voltage">>, NumUnit(<<1, 0>>, <<"V">>)),
      Line(FALSE, <<"Voltage">>, <<W(<<1, 0>>, <<"v">>)>>) }

DurationLines ==
    { Line(FALSE, <<"Duration">>, NumUnit(<<5, 0>>, <<"s">>)),
      Line(FALSE, <<"Duration">>, NumUnit(<<5, 0>>, <<"longs">>)),
      Line(FALSE, <<"Duration">>, NumUnit(<<5, 0>>, <<"m", "s">>)),
      Line(FALSE, <<"Duration">>, NumUnit(<<5, 0>>, <<"micro", "s">>)) }

TemperatureLines ==
    { Line(FALSE, <<"Temperature">>, NumUnit(<<122, 0>>, <<"deg", "F">>)) }

TextLines ==
    { Line(FALSE, <<"Timestamp">>, <<W(NoNum, <<"2024-01-01">>), W(NoNum, <<"12:00:00">>)>>),
      Line(FALSE, <<"Timestamp">>, <<W(NoNum, <<"now">>)>>),
      Line(FALSE, <<"Device">>, <<W(NoNum, <<"Snap">>), W(NoNum, <<"Dragon">>)>>),
      Line(FALSE, <<"Device">>, <<W(NoNum, <<"chipX">>)>>) }

FreeFormLines ==
    { Line(FALSE, <<"total", "_", "power", "_", "mw">>, <<W(NoNum, <<"high">>)>>),
      Line(FALSE, <<"Frequency", " ", "MHz">>, <<W(<<100, 0>>, <<>>)>>),
      Line(FALSE, <<"cpu", "_", "power", "_", "mw">>, <<W(<<7, 0>>, <<>>)>>),
      Line(FALSE, <<"Note">>, <<W(NoNum, <<"a">>)>>),
      Line(FALSE, <<"Note">>, <<W(NoNum, <<"b">>), W(NoNum, <<"b">>)>>),
      Line(TRUE,  <<"Note">>, <<W(NoNum, <<"c">>)>>) }

LineSet ==
    TotalPowerLines \cup OtherPowerLines \cup FrequencyLines \cup VoltageLines
        \cup DurationLines \cup TemperatureLines \cup TextLines \cup FreeFormLines

Contents == UNION { [1..n -> LineSet] : n \in 0..MaxLines }

\* ------------------------------------------------------- parser and renderer
NoRaw == [k \in {} |-> [value |-> 0, unit |-> <<>>]]

ParserIdle ==
    /\ content = <<>>
    /\ metrics = Empty
    /\ raw_metrics = NoRaw
    /\ html = NoDocument("none")
    /\ pc = "idle"

BatchIdle ==
    /\ directory = <<>>
    /\ same_dir = FALSE
    /\ history = <<>>
    /\ files = <<>>
    /\ idx = 0
    /\ results = <<>>
    /\ written = <<>>
    /\ batch = "idle"

NoRequest == [method |-> "GET", designs |-> <<>>, die |-> <<>>, mode |-> <<>>]
NoResponse == [status |-> 0, done |-> FALSE, generated |-> <<>>, comparison |-> FALSE,
               report_type |-> <<>>]

WebIdle ==
    /\ request = NoRequest
    /\ calls = <<>>
    /\ generated = <<>>
    /\ response = NoResponse
    /\ wpc = "idle"

InitParser ==
    /\ content \in Contents
    /\ metrics = Empty
    /\ raw_metrics = NoRaw
    /\ html = NoDocument("none")
    /\ pc = "input"
    /\ BatchIdle
    /\ WebIdle

\* PowerReportParser._parse_content(content)
ParseContent ==
    /\ pc = "input"
    /\ metrics' = ParseMetrics(content)
    /\ raw_metrics' = ParseRaw(content)
    /\ pc' = "parsed"
    /\ UNCHANGED <<content, html, batchVars, webVars>>

\* HTMLDashboardGenerator.generate_html_dashboard(parsed_data)
RenderDashboard ==
    /\ pc = "parsed"
    /\ html' = GenerateHtmlDashboard(metrics)
    /\ pc' = "rendered"
    /\ UNCHANGED <<content, metrics, raw_metrics, batchVars, webVars>>

NextParser == ParseContent \/ RenderDashboard

SpecParser == InitParser /\ [][NextParser]_vars

\* ------------------------------------------------------------ batch of files
\* A file name is the sequence of its dot-separated parts; a file is its name,
\* what reading it does ("ok", or the exception open/read raises) and its content.
File(name, read, c) == [name |-> name, read |-> read, content |-> c]

\* is_valid_report_file: filepath.endswith('.report.avgpwr')
IsValidReportFile(name) ==
    /\ Len(name) >= 3
    /\ name[Len(name) - 1] = "report"
    /\ name[Len(name)] = "avgpwr"

\* The exceptions of open and read that are IOError or OSError
OSErrors == {"FileNotFoundError", "PermissionError"}

\* parse_file: None, the parsed metrics, or the exception that propagates.
\* Only IOError and OSError are caught around open and read.
ParseFile(f) ==
    IF ~IsValidReportFile(f.name) THEN [status |-> "None", metrics |-> Empty]
    ELSE IF f.read \in OSErrors THEN [status |-> "None", metrics |-> Empty]
    ELSE IF f.read # "ok" THEN [status |-> f.read, metrics |-> Empty]
    ELSE [status |-> "ok", metrics |-> ParseMetrics(f.content)]

\* generate_dashboard_from_file: None, the document, or the exception that
\* propagates (the status of the result)
GenerateDashboardFromFile(f) ==
    LET parsed == ParseFile(f)
    IN  IF parsed.status = "ok" THEN GenerateHtmlDashboard(parsed.metrics)
        ELSE NoDocument(parsed.status)

\* An output name made of the first part of the name only
OutputFilenameShort(name) == <<name[1], "html">>

\* report_file.stem + '.html': the stem drops the last suffix only
OutputFilename(name) == SubSeq(name, 1, Len(name) - 1) \o <<"html">>

\* a.report.avgpwr, b.report.avgpwr, a.b.report.avgpwr
StemName(i) ==
    CASE i = 1 -> <<"a">>
      [] i = 2 -> <<"b">>
      [] OTHER -> <<"a", "b">>

ReportName(i) == StemName(i) \o <<"report", "avgpwr">>

GoodContent ==
    << Line(FALSE, <<"Total", " ", "Power">>, NumUnit(<<12, 500>>, <<"W">>)),
       Line(FALSE, <<"CPU", " ", "Power">>, NumUnit(<<6000, 0>>, <<"m", "W">>)) >>

FreeFormContent ==
    << Line(FALSE, <<"Frequency", " ", "MHz">>, <<W(<<100, 0>>, <<>>)>>) >>

\* The files a directory may hold under one name: a report that renders, one
\* whose rendering raises, a dangling link, a file without read permission, a
\* file that is not UTF-8
FileVariants(i) ==
    { File(ReportName(i), "ok", GoodContent),
      File(ReportName(i), "ok", FreeFormContent),
      File(ReportName(i), "FileNotFoundError", <<>>),
      File(ReportName(i), "PermissionError", <<>>),
      File(ReportName(i), "UnicodeDecodeError", <<>>) }

\* Files of the directory that are not named *.report.avgpwr
OtherFiles ==
    { File(<<"a", "report", "txt">>, "ok", GoodContent) }

ReportIndices == {1, 2, 3}

\* The entries of a directory, in the order the directory lists them: files of
\* distinct names
Directories ==
    { d \in UNION { [1..n -> OtherFiles \cup UNION { FileVariants(i) : i \in ReportIndices }] :
                    n \in 0..MaxFiles } :
        \A i, j \in 1..Len(d) : i # j => d[i].name # d[j].name }

\* The pattern '*.report.avgpwr' against a name
GlobMatches(name) ==
    /\ Len(name) >= 3
    /\ name[Len(name) - 1] = "report"
    /\ name[Len(name)] = "avgpwr"

\* Path(directory).glob('*.report.avgpwr') on the first run: the entries with a
\* matching name, in the order of the listing
RECURSIVE Glob(_)
Glob(d) ==
    IF d = <<>> THEN <<>>
    ELSE IF GlobMatches(Head(d).name) THEN <<Head(d)>> \o Glob(Tail(d))
    ELSE Glob(Tail(d))

\* The names the directory lists once docs, the documents of the output
\* directory, are in it
ListedNames(d, docs, same) ==
    { d[i].name : i \in 1..Len(d) } \cup (IF same THEN DOMAIN docs ELSE {})

\* What the glob may yield on a later run: the entries with a matching name, in
\* any order (the listing order of a directory that was written to may change)
Globs(d, docs, same) ==
    LET matched == { i \in 1..Len(d) :
                       /\ d[i].name \in ListedNames(d, docs, same)
                       /\ GlobMatches(d[i].name) }
        extra   == { n \in ListedNames(d, docs, same) :
                       GlobMatches(n) /\ \A i \in 1..Len(d) : d[i].name # n }
    IN  IF extra # {} THEN {}
        ELSE { [k \in 1..Cardinality(matched) |-> d[o[k]]] :
                 o \in { f \in [1..Cardinality(matched) -> matched] :
                           \A x, y \in 1..Cardinality(matched) : x # y => f[x] # f[y] } }

InitBatch ==
    /\ directory \in Directories
    /\ same_dir \in BOOLEAN
    /\ history = <<>>
    /\ files = Glob(directory)
    /\ idx = 0
    /\ results = <<>>
    /\ written = <<>>
    /\ batch = "running"
    /\ ParserIdle
    /\ WebIdle

\* One turn of the loop of process_power_reports
ProcessReport ==
    /\ batch = "running"
    /\ idx < Len(files)
    /\ LET report_file == files[idx + 1]
           html_content == GenerateDashboardFromFile(report_file)
           output_filename == OutputFilename(report_file.name)
       IN  IF html_content.status = "ok"
           THEN /\ written' = Put(written, output_filename,
                                  [source |-> report_file.name, html |-> html_content])
                /\ results' = Put(results, report_file.name, output_filename)
                /\ batch' = "running"
           ELSE IF html_content.status = "None"
           THEN UNCHANGED <<written, results, batch>>
           ELSE /\ batch' = "raised"
                /\ UNCHANGED <<written, results>>
    /\ idx' = idx + 1
    /\ UNCHANGED <<directory, same_dir, history, files, parserVars, webVars>>

\* The loop is over: return results
ReturnResults ==
    /\ batch = "running"
    /\ idx = Len(files)
    /\ batch' = "returned"
    /\ history' = Append(history, [results |-> results, documents |-> DOMAIN written])
    /\ UNCHANGED <<directory, same_dir, files, idx, results, written, parserVars, webVars>>

\* process_power_reports is called again on the same directory
RunAgain ==
    /\ batch = "returned"
    /\ Len(history) < MaxRuns
    /\ files' \in Globs(directory, written, same_dir)
    /\ idx' = 0
    /\ results' = <<>>
    /\ batch' = "running"
    /\ UNCHANGED <<directory, same_dir, history, written, parserVars, webVars>>

NextBatch == ProcessReport \/ ReturnResults \/ RunAgain

SpecBatch == InitBatch /\ [][NextBatch]_vars

\* ------------------------------------------------------------ index handler
\* A form value is a sequence of characters; " " is the blank.
RECURSIVE LStrip(_)
LStrip(t) == IF t # <<>> /\ Head(t) = " " THEN LStrip(Tail(t)) ELSE t

RECURSIVE RStrip(_)
RStrip(t) ==
    IF t # <<>> /\ t[Len(t)] = " " THEN RStrip(SubSeq(t, 1, Len(t) - 1)) ELSE t

\* str.strip()
Strip(t) == RStrip(LStrip(t))

\* request.form.get("die", "").strip()
Die(req) == Strip(req.die)

\* request.form.get("mode", "timing"): <<>> stands for a form without the field
ReportType(req) == IF req.mode = <<>> THEN "timing" ELSE req.mode[1]

\* The validation without the .strip() of the die label
InputValidUntrimmed(req) == req.designs # <<>> /\ req.die # <<>>

\* not (not selected_designs or not die)
InputValid(req) == req.designs # <<>> /\ Die(req) # <<>>

DesignNames == {"chipA", "chipB"}
DieValues == { <<>>, <<" ">>, <<"d", "1">>, <<" ", "d", "1", " ">> }
ModeValues == { <<>>, <<"timing">>, <<"power">>, <<"other">> }

Requests ==
    [method : {"GET", "POST"},
     designs : UNION { [1..n -> DesignNames] : n \in 0..MaxDesigns },
     die : DieValues,
     mode : ModeValues]

\* What run_chip or run_power may return: a list of document names
DocumentLists == UNION { [1..n -> {"x.html", "y.html"}] : n \in 0..MaxDocs }

InitWeb ==
    /\ request \in Requests
    /\ calls = <<>>
    /\ generated = <<>>
    /\ response = NoResponse
    /\ wpc = "start"
    /\ ParserIdle
    /\ BatchIdle

\* abort(code, ...)
Abort(code) == [NoResponse EXCEPT !.status = code]

\* render_template("index.html", ..., done=False)
RenderForm == [NoResponse EXCEPT !.status = 200]

\* render_template("index.html", ..., generated=generated,
\*                 comparison=(len(generated) > 1), done=True, report_type=...)
RenderDone(gen, report_type) ==
    [status |-> 200, done |-> TRUE, generated |-> gen,
     comparison |-> (Len(gen) > 1), report_type |-> <<report_type>>]

\* The handler without its test 'if not generated'
ResponseUnchecked(gen, report_type) == RenderDone(gen, report_type)

\* What the handler does once the pipeline has returned gen
ResponseFor(gen, report_type) ==
    IF gen = <<>> THEN Abort(500) ELSE RenderDone(gen, report_type)

\* index, up to the call of the pipeline: a GET gets the form, a POST is
\* validated
Receive ==
    /\ wpc = "start"
    /\ IF request.method # "POST"
       THEN response' = RenderForm /\ wpc' = "done"
       ELSE IF ~InputValid(request)
       THEN response' = Abort(400) /\ wpc' = "done"
       ELSE response' = response /\ wpc' = "dispatch"
    /\ UNCHANGED <<request, calls, generated, parserVars, batchVars>>

\* generated = run_chip(cwd=CWD_BASE_TIMING, die=die, outdir=OUTDIR, designs=...)
RunChip ==
    /\ wpc = "dispatch"
    /\ ReportType(request) = "timing"
    /\ calls' = Append(calls, [fn |-> "run_chip", die |-> Die(request),
                               designs |-> request.designs])
    /\ generated' \in DocumentLists
    /\ wpc' = "returned"
    /\ UNCHANGED <<request, response, parserVars, batchVars>>

\* generated = run_power(cwd=CWD_BASE_POWER, outdir=OUTDIR, designs=...)
RunPower ==
    /\ wpc = "dispatch"
    /\ ReportType(request) # "timing"
    /\ calls' = Append(calls, [fn |-> "run_power", die |-> <<>>,
                               designs |-> request.designs])
    /\ generated' \in DocumentLists
    /\ wpc' = "returned"
    /\ UNCHANGED <<request, response, parserVars, batchVars>>

\* index, after the pipeline has returned
Respond ==
    /\ wpc = "returned"
    /\ response' = ResponseFor(generated, ReportType(request))
    /\ wpc' = "done"
    /\ UNCHANGED <<request, calls, generated, parserVars, batchVars>>

NextWeb == Receive \/ RunChip \/ RunPower \/ Respond

SpecWeb == InitWeb /\ [][NextWeb]_vars

\* ================================================================== claims
Parsed == pc \in {"parsed", "rendered"}

\* The fields whose value is converted to a canonical unit
ConvertedFields ==
    {"total_power", "cpu_power", "gpu_power", "memory_power", "other_power",
     "frequency", "voltage", "duration"}

\* The unit a token stands for: the alternative of the field's pattern (in the
\* pattern's order) that accepts it
UnitIndex(field, token) ==
    CHOOSE i \in 1..Len(UnitAlternatives(field)) :
        /\ PrefixMatch(UnitAlternatives(field)[i], token)
        /\ \A j \in 1..(i - 1) : ~PrefixMatch(UnitAlternatives(field)[j], token)

\* The conversion the specification states for the i-th unit of a field:
\* power mW, W, uW; duration s, ms, us; frequency MHz, GHz, KHz; voltage V, mV
StatedValue(field, i, v) ==
    CASE field = "duration" ->
             (IF i = 1 THEN v * 1000 ELSE IF i = 3 THEN v \div 1000 ELSE v)
      [] field = "frequency" ->
             (IF i = 2 THEN v * 1000 ELSE IF i = 3 THEN v \div 1000 ELSE v)
      [] field = "voltage" -> (IF i = 2 THEN v \div 1000 ELSE v)
      [] OTHER -> (IF i = 2 THEN v * 1000 ELSE IF i = 3 THEN v \div 1000 ELSE v)

\* C1: for every value and every unit token a power, frequency, voltage or
\* duration pattern matched, the stored canonical metric is the value converted
\* by the factor stated for that unit.
C1_StoredMetricIsConverted ==
    Parsed =>
        \A f \in ConvertedFields :
            RawKey(f) \in DOMAIN raw_metrics =>
                LET raw == raw_metrics[RawKey(f)]
                IN  metrics[MetricKey(f)] =
                        NumV(StatedValue(f, UnitIndex(f, raw.unit), raw.value))

\* A form value made of blanks only (empty after trimming)
AllBlank(t) == \A i \in 1..Len(t) : t[i] = " "

InvalidPost == request.method = "POST" /\ (request.designs = <<>> \/ AllBlank(request.die))
ValidPost == request.method = "POST" /\ request.designs # <<>> /\ ~AllBlank(request.die)

\* C2: a POST without designs, or with a die label that is empty after trimming,
\* is answered 400 and no pipeline is ever called for it, in either mode.
C2_InvalidPostNeverRunsPipeline ==
    InvalidPost =>
        /\ calls = <<>>
        /\ wpc \in {"start", "done"}
        /\ wpc = "done" => response.status = 400

C2_Witness ==
    /\ wpc = "done"
    /\ request.method = "POST"
    /\ request.designs # <<>>
    /\ request.die = <<" ">>
    /\ request.mode = <<"power">>
    /\ response.status = 400

\* C3: a POST that passes validation ends in 500 exactly when the pipeline it
\* called returned no document, and otherwise in the page carrying the list.
C3_GenerationFailureIffNoDocument ==
    (wpc = "done" /\ ValidPost) =>
        /\ Len(calls) = 1
        /\ response.status = 500 <=> generated = <<>>
        /\ generated # <<>> =>
               /\ response.status = 200
               /\ response.done
               /\ response.generated = generated

C3_Witness ==
    /\ wpc = "done"
    /\ ValidPost
    /\ Len(calls) = 1
    /\ generated = <<>>
    /\ response.status = 500

\* A file the pipeline can read, parse and render
Renderable(f) == GenerateDashboardFromFile(f).status = "ok"

\* C4: a failure on one report file never aborts the batch: the run returns, and
\* every file that can be rendered is in the returned mapping, wherever the
\* failing file is in the iteration order.
C4_BatchSurvivesFailingFile ==
    batch \in {"returned", "raised"} =>
        /\ batch = "returned"
        /\ \A i \in 1..Len(files) :
               Renderable(files[i]) => files[i].name \in DOMAIN results

\* C5: rendering the record parsed from any content returns a document and
\* never raises.
C5_RenderNeverRaises == pc = "rendered" => html.status = "ok"

SeverityOf(total) ==
    IF total > 10000 * 1000 THEN "metric-card power-critical"
    ELSE IF total > 5000 * 1000 THEN "metric-card power-warning"
    ELSE "metric-card power-normal"

\* C6: the total-power card is critical above 10000 mW, warning above 5000 mW
\* up to 10000 mW, normal otherwise (also at exactly 5000, at 0 and without a
\* total); no other card carries a severity class.
C6_SeverityOnTotalCardOnly ==
    (pc = "rendered" /\ html.status = "ok") =>
        LET total == IF "total_power_mw" \in DOMAIN metrics
                     THEN metrics["total_power_mw"].v ELSE 0
        IN  /\ Len(html.cards) = 7
            /\ html.cards[1].label = "Total Power"
            /\ html.cards[1].css_class = SeverityOf(total)
            /\ \A i \in 2..Len(html.cards) : html.cards[i].css_class = "metric-card"

C6_Witness ==
    /\ pc = "rendered"
    /\ html.status = "ok"
    /\ "total_power_mw" \in DOMAIN metrics
    /\ metrics["total_power_mw"].v = 10000 * 1000
    /\ html.cards[1].css_class = "metric-card power-warning"
    /\ "cpu_power_mw" \in DOMAIN metrics
    /\ metrics["cpu_power_mw"].v > 5000 * 1000

\* The metrics the recognized fields set, before the pass over the lines
Recognized == NumericMetrics(content, 1, TextFields(content))

\* The i-th line is the first 'label: value' line that yields key k
FirstLineOfKey(i, k) ==
    /\ MetricLineMatches(content[i])
    /\ PassthroughKey(content[i].label, 1) = k
    /\ \A j \in 1..(i - 1) :
           ~(MetricLineMatches(content[j]) /\ PassthroughKey(content[j].label, 1) = k)

\* C7: the pass over the 'label: value' lines leaves every key a recognized
\* field has set as it was, and a key several lines yield keeps the value of the
\* first of them.
C7_PassthroughKeepsFirst ==
    Parsed =>
        LET rec == Recognized
        IN  /\ \A k \in DOMAIN rec : k \in DOMAIN metrics /\ metrics[k] = rec[k]
            /\ \A i \in 1..Len(content) :
                   LET k == PassthroughKey(content[i].label, 1)
                   IN  (FirstLineOfKey(i, k) /\ k \notin DOMAIN rec) =>
                           (k \in DOMAIN metrics /\ metrics[k] = StrV(content[i].words))

C7_Witness ==
    /\ pc = "parsed"
    /\ Len(content) = 2
    /\ content[1].label = <<"cpu", "_", "power", "_", "mw">>
    /\ content[2].label = <<"CPU", " ", "Power">>
    /\ metrics["cpu_power_mw"].t = "num"

CanonicalKeys ==
    {"total_power_mw", "cpu_power_mw", "gpu_power_mw", "memory_power_mw",
     "other_power_mw", "frequency_mhz", "voltage_v", "temperature_c", "duration_ms"}

\* C8: every canonical metric name present in the parsed record maps to a
\* number, never to raw text.
C8_CanonicalMetricsAreNumbers ==
    Parsed => \A k \in CanonicalKeys \cap DOMAIN metrics : metrics[k].t = "num"

\* C9: every unit token the patterns accept is given, by the normalizer, the
\* conversion factor of its unit: no accepted token of a non-canonical unit is
\* left unchanged.
C9_AcceptedTokenGetsItsFactor ==
    Parsed =>
        \A f \in ConvertedFields :
            RawKey(f) \in DOMAIN raw_metrics =>
                LET unit == raw_metrics[RawKey(f)].unit
                IN  Normalize(f, Float(1), unit) =
                        StatedValue(f, UnitIndex(f, unit), Float(1))

\* The i-th line is the first line with the label of a text field
FirstLineOfField(i, field) ==
    /\ LabelMatches(field, content[i])
    /\ \A j \in 1..(i - 1) : ~LabelMatches(field, content[j])

\* C10: the timestamp and the device name stored are the whole value of their
\* line, internal blanks included.
C10_TextFieldsVerbatim ==
    Parsed =>
        \A i \in 1..Len(content) :
            /\ FirstLineOfField(i, "timestamp") =>
                   metrics["timestamp"] = StrV(content[i].words)
            /\ FirstLineOfField(i, "device_name") =>
                   metrics["device_name"] = StrV(content[i].words)

\* A file that is absent data: its name does not end in .report.avgpwr, or
\* opening and reading it fails
Absent(f) ==
    \/ f.read # "ok"
    \/ ~(/\ Len(f.name) >= 3
         /\ SubSeq(f.name, Len(f.name) - 1, Len(f.name)) = <<"report", "avgpwr">>)

\* C11: for a path that does not exist, cannot be read or does not end in
\* .report.avgpwr, parse_file and generate_dashboard_from_file return None, and
\* the run writes no document and adds no mapping entry for it.
C11_AbsentFileIsSkipped ==
    batch \in {"returned", "raised"} =>
        \A i \in 1..Len(directory) :
            LET f == directory[i]
            IN  Absent(f) =>
                    /\ ParseFile(f).status = "None"
                    /\ GenerateDashboardFromFile(f).status = "None"
                    /\ f.name \notin DOMAIN results
                    /\ \A o \in DOMAIN written : written[o].source # f.name

\* The name of the report with its last suffix replaced by html
StatedOutput(name) == [i \in 1..Len(name) |-> IF i = Len(name) THEN "html" ELSE name[i]]

\* C12: the output name is a function of the source name alone, two reports of
\* one run never share an output document, and a second run on the same
\* directory returns the same mapping and leaves the same documents, also when
\* the documents are written into the directory itself.
C12_OutputNamesStableAndUnique ==
    /\ \A n \in DOMAIN results : results[n] = StatedOutput(n)
    /\ \A n1, n2 \in DOMAIN results : n1 # n2 => results[n1] # results[n2]
    /\ \A k \in 2..Len(history) :
           /\ history[k].results = history[1].results
           /\ history[k].documents = history[1].documents

C12_Witness ==
    /\ batch = "returned"
    /\ Len(history) = 2
    /\ same_dir
    /\ Cardinality(DOMAIN results) = 2
    /\ ReportName(1) \in DOMAIN results
    /\ ReportName(3) \in DOMAIN results
    /\ \E i \in 1..Len(directory) : ~GlobMatches(directory[i].name)

\* C13: on a successful POST the comparison flag given to the page is false
\* when exactly one design was selected, however many documents the pipeline
\* returned, and is true only when two or more designs were selected.
C13_ComparisonOnlyForSeveralDesigns ==
    (wpc = "done" /\ ValidPost /\ response.status = 200 /\ response.done) =>
        /\ Len(request.designs) = 1 => ~response.comparison
        /\ response.comparison => Len(request.designs) >= 2

\* The metrics behind the bars of the breakdown section
BreakdownKeys == <<"cpu_power_mw", "gpu_power_mw", "memory_power_mw">>

\* n / d rounded up
CeilDiv(n, d) == -((-n) \div d)

\* width, a number of tenths of a percent, is value / total * 100 to the nearest
\* tenth (total > 0, value >= 0): (2 f - 1) total <= 2000 b <= (2 f + 1) total
\* for value = a total + b and width = 1000 a + f, with total taken in two parts
\* so that no product leaves the range of the integers
IsPercentage(width, value, total) ==
    LET a  == value \div total
        b  == value % total
        f  == width - 1000 * a
        th == total \div 2000
        tl == total % 2000
    IN  /\ 0 <= f
        /\ f <= 1000
        /\ (2 * f - 1) * th + CeilDiv((2 * f - 1) * tl, 2000) <= b
        /\ b <= (2 * f + 1) * th + ((2 * f + 1) * tl) \div 2000

\* C14: in a rendered document the bar of each of CPU, GPU and memory is
\* value / total * 100 percent wide when the total power is positive and 0
\* percent wide when the total is 0 or absent, and the width is between 0 and
\* 100 percent whenever the value is between 0 and the total.
C14_BreakdownWidth ==
    (pc = "rendered" /\ html.status = "ok") =>
        LET total == Get(metrics, "total_power_mw", NumV(0)).v
        IN  \A i \in 1..Len(BreakdownKeys) :
                LET value == Get(metrics, BreakdownKeys[i], NumV(0)).v
                    width == html.breakdown[i].width
                IN  /\ total > 0 => IsPercentage(width, value, total)
                    /\ total <= 0 => width = 0
                    /\ (0 <= value /\ value <= total) => (0 <= width /\ width <= 1000)

C14_Witness ==
    /\ pc = "rendered"
    /\ html.status = "ok"
    /\ Get(metrics, "total_power_mw", NumV(0)).v = Float(12500)
    /\ Get(metrics, "cpu_power_mw", NumV(0)).v = Float(6000)
    /\ html.breakdown[1].width = 480
    /\ "gpu_power_mw" \notin DOMAIN metrics
    /\ html.breakdown[2].width = 0

================================================================================
